---- MODULE Spec2Model ----
(***************************************************************************)
(* A model of chance (src/main.rs): the solver that enumerates subsets,    *)
(* orderings and operator assignments of i32 operands and keeps the        *)
(* right-nested expressions whose value is the target.                     *)
(***************************************************************************)
EXTENDS Integers, Sequences, FiniteSets, TLC

VARIABLES
    overflow_checks,  \* build profile: TRUE = overflow checks on (debug), FALSE = off (release)
    pc,               \* position of the modelled call
    fault,            \* "none", or the panic that ended the call
    expr,             \* evaluate: the Operation<i32> it is called on
    value,            \* evaluate: the i32 it returned
    vec,              \* power_set / permutations: the Vec argument
    bit_vector,       \* power_set: next element of the range 0..2^len
    limit,            \* power_set: the end of that range
    yielded,          \* what the iterator under study has yielded so far
    operands,         \* find_operations_for_value / generate_operations: the Vec argument
    target_value,     \* find_operations_for_value: the target
    queue,            \* find_operations_for_value: permutations of the current subset not yet expanded
    output,           \* find_operations_for_value: the expressions that passed the filter
    operations,       \* process_associative_operation_filter: input not yet collected
    map               \* process_associative_operation_filter: the HashMap being collected

vars == <<overflow_checks, pc, fault, expr, value, vec, bit_vector, limit, yielded,
          operands, target_value, queue, output, operations, map>>

-----------------------------------------------------------------------------
(* Bounds of the model.                                                     *)

MaxChain == 3       \* operands per expression handed to evaluate
MaxVec == 4         \* length of the vectors handed to the generators
MaxOperands == 3    \* operands handed to the search
MaxOperations == 3  \* expressions handed to the filter

-----------------------------------------------------------------------------
(* i32 arithmetic.  Every intermediate value stays inside the 32-bit range. *)

MaxI32 == 2147483647
MinI32 == -MaxI32 - 1

Ok(v) == [fault |-> "none", value |-> v]
Panic(why) == [fault |-> why, value |-> 0]

AddOverflows(a, b) ==
    \/ b > 0 /\ a > MaxI32 - b
    \/ b < 0 /\ a < MinI32 - b

SubOverflows(a, b) ==
    \/ b < 0 /\ a > MaxI32 + b
    \/ b > 0 /\ a < MinI32 + b

\* a + b modulo 2^32, as a two's complement i32.
WrapAdd(a, b) ==
    IF ~AddOverflows(a, b) THEN a + b
    ELSE IF b > 0 THEN ((a + MinI32) + b) + MinI32
    ELSE ((a - MinI32) + b) - MinI32

\* a - b modulo 2^32, as a two's complement i32.
WrapSub(a, b) ==
    IF ~SubOverflows(a, b) THEN a - b
    ELSE IF b < 0 THEN ((a + MinI32) - b) + MinI32
    ELSE ((a - MinI32) - b) - MinI32

\* x * y modulo 2^16 for 16-bit limbs x, y.
MulMod16(x, y) == ((x * (y % 256)) + ((x * (y \div 256)) % 256) * 256) % 65536

\* floor(x * y / 2^16) modulo 2^16 for 16-bit limbs x, y.
MulHigh16(x, y) == ((x * (y \div 256)) + ((x * (y % 256)) \div 256)) \div 256

\* a * b modulo 2^32, as a two's complement i32 (schoolbook on 16-bit limbs).
WrapMul(a, b) ==
    LET a0 == a % 65536
        a1 == (a \div 65536) % 65536
        b0 == b % 65536
        b1 == (b \div 65536) % 65536
        r0 == MulMod16(a0, b0)
        r1 == (MulHigh16(a0, b0) + MulMod16(a1, b0) + MulMod16(a0, b1)) % 65536
    IN  IF r1 >= 32768 THEN (r1 - 65536) * 65536 + r0 ELSE r1 * 65536 + r0

\* x * y <= 2^31 for x, y >= 1.
FitsNegative(x, y) ==
    LET q == MaxI32 \div y
        r == MaxI32 % y
    IN  x <= q \/ (r + 1 = y /\ x = q + 1)

MulOverflows(a, b) ==
    IF a = 0 \/ b = 0 THEN FALSE
    ELSE IF a > 0 /\ b > 0 THEN a > MaxI32 \div b
    ELSE IF a < 0 /\ b < 0 THEN
        a = MinI32 \/ b = MinI32 \/ (-a) > MaxI32 \div (-b)
    ELSE IF a > 0 THEN (IF b = MinI32 THEN a # 1 ELSE ~FitsNegative(a, -b))
    ELSE (IF a = MinI32 THEN b # 1 ELSE ~FitsNegative(b, -a))

\* a / b of Rust for b # 0 and (a, b) # (MinI32, -1): the quotient truncated toward zero.
TruncDiv(a, b) ==
    IF b > 0 THEN
        (IF a < 0 /\ a % b # 0 THEN (a \div b) + 1 ELSE a \div b)
    ELSE IF b = MinI32 THEN (IF a = MinI32 THEN 1 ELSE 0)
    ELSE -(IF a < 0 /\ a % (-b) # 0 THEN (a \div (-b)) + 1 ELSE a \div (-b))

\* operand1 + operand2 on i32: a panic with overflow checks on, the wrapped sum without.
I32Add(a, b, checks) ==
    IF AddOverflows(a, b) /\ checks THEN Panic("attempt to add with overflow")
    ELSE Ok(WrapAdd(a, b))

I32Sub(a, b, checks) ==
    IF SubOverflows(a, b) /\ checks THEN Panic("attempt to subtract with overflow")
    ELSE Ok(WrapSub(a, b))

I32Mul(a, b, checks) ==
    IF MulOverflows(a, b) /\ checks THEN Panic("attempt to multiply with overflow")
    ELSE Ok(WrapMul(a, b))

\* operand1 / operand2 on i32 for operand2 # 0: i32::MIN / -1 panics in every build.
I32Div(a, b) ==
    IF a = MinI32 /\ b = -1 THEN Panic("attempt to divide with overflow")
    ELSE Ok(TruncDiv(a, b))

-----------------------------------------------------------------------------
(* Operator and Operation<T>.                                               *)

ADD == "ADD"
SUBTRACT == "SUBTRACT"
MULTIPLY == "MULTIPLY"
DIVIDE == "DIVIDE"

Operator == {ADD, SUBTRACT, MULTIPLY, DIVIDE}

\* The same list with ADD listed twice and MULTIPLY left out.
OperatorValuesRepeated == <<ADD, SUBTRACT, DIVIDE, ADD>>

OperatorValues == <<ADD, SUBTRACT, DIVIDE, MULTIPLY>>

SingleOperand(v) == [tag |-> "SingleOperand", value |-> v]

Operation(operand1, operator, operand2) ==
    [tag |-> "Operation", operand1 |-> operand1, operator |-> operator,
     operand2 |-> operand2]

RECURSIVE evaluate(_, _)
evaluate(self, checks) ==
    IF self.tag = "SingleOperand" THEN Ok(self.value)
    ELSE LET operand2 == evaluate(self.operand2, checks)
         IN  IF operand2.fault # "none" THEN operand2
             ELSE CASE self.operator = ADD -> I32Add(self.operand1, operand2.value, checks)
                    [] self.operator = SUBTRACT -> I32Sub(self.operand1, operand2.value, checks)
                    [] self.operator = DIVIDE ->
                         IF operand2.value = 0 THEN Ok(0)
                         ELSE I32Div(self.operand1, operand2.value)
                    [] self.operator = MULTIPLY -> I32Mul(self.operand1, operand2.value, checks)

\* The operands of an expression, left to right, and its operators, left to right.
RECURSIVE OperandsOf(_)
OperandsOf(e) ==
    IF e.tag = "SingleOperand" THEN <<e.value>>
    ELSE <<e.operand1>> \o OperandsOf(e.operand2)

RECURSIVE OperatorsOf(_)
OperatorsOf(e) ==
    IF e.tag = "SingleOperand" THEN <<>>
    ELSE <<e.operator>> \o OperatorsOf(e.operand2)

-----------------------------------------------------------------------------
(* Inputs.                                                                  *)

Range(s) == {s[i] : i \in DOMAIN s}

\* Every sequence over S of length lo..hi.
SeqsOf(S, lo, hi) == UNION {[1..n -> S] : n \in lo..hi}

\* Every right-nested chain of exactly n operands drawn from S.
RECURSIVE ChainsOfLen(_, _)
ChainsOfLen(S, n) ==
    IF n = 1 THEN {SingleOperand(v) : v \in S}
    ELSE {Operation(a, op, r) : a \in S, op \in Operator, r \in ChainsOfLen(S, n - 1)}

Chains(S, n) == UNION {ChainsOfLen(S, k) : k \in 1..n}

EvalOperands == {MinI32, -7, -1, 0, 2, MaxI32}

-----------------------------------------------------------------------------
(* evaluate, called once on an expression tree.                             *)

Idle == <<>>

InitEvaluate ==
    /\ overflow_checks \in BOOLEAN
    /\ pc = "call"
    /\ fault = "none"
    /\ expr \in Chains(EvalOperands, MaxChain)
    /\ value = 0
    /\ vec = Idle /\ bit_vector = 0 /\ limit = 0 /\ yielded = Idle
    /\ operands = Idle /\ target_value = 0 /\ queue = Idle /\ output = Idle
    /\ operations = Idle /\ map = {}

Evaluate ==
    /\ pc = "call"
    /\ LET r == evaluate(expr, overflow_checks)
       IN  /\ fault' = r.fault
           /\ value' = r.value
           /\ pc' = IF r.fault = "none" THEN "returned" ELSE "panicked"
    /\ UNCHANGED <<overflow_checks, expr, vec, bit_vector, limit, yielded, operands,
                   target_value, queue, output, operations, map>>

NextEvaluate == Evaluate

SpecEvaluate == InitEvaluate /\ [][NextEvaluate]_vars

\* l op r = v over the integers, for i32 l, r, v: no i32 equals a result outside the range.
ExactApplyIs(op, l, r, v) ==
    CASE op = ADD -> ~AddOverflows(l, r) /\ v = l + r
      [] op = SUBTRACT -> ~SubOverflows(l, r) /\ v = l - r
      [] op = MULTIPLY -> ~MulOverflows(l, r) /\ v = WrapMul(l, r)
      [] op = DIVIDE ->
           IF r = 0 THEN v = 0
           ELSE ~(l = MinI32 /\ r = -1) /\ v = TruncDiv(l, r)

\* C2: evaluate is total over i32 operands: whatever the tree, the call returns
\* an i32 and never ends in a runtime fault of an arithmetic step.
C2_EvaluateTotal ==
    pc # "call" => pc = "returned" /\ fault = "none" /\ value \in MinI32..MaxI32

\* C3: evaluate(Leaf(v)) = v and evaluate(Node(l, op, r)) = apply(op, l, evaluate(r)),
\* with Add, Subtract, Multiply the integer sum, difference and product and Divide
\* 0 for a right value of 0 and the quotient truncated toward zero otherwise.
C3_EvaluateReference ==
    pc # "call" =>
        IF expr.tag = "SingleOperand" THEN fault = "none" /\ value = expr.value
        ELSE LET right == evaluate(expr.operand2, overflow_checks)
             IN  /\ right.fault = "none"
                 /\ fault = "none"
                 /\ ExactApplyIs(expr.operator, expr.operand1, right.value, value)

\* Where no step leaves the i32 range, evaluate agrees with the reference semantics.
RECURSIVE InRange(_)
InRange(e) ==
    IF e.tag = "SingleOperand" THEN TRUE
    ELSE /\ InRange(e.operand2)
         /\ LET r == evaluate(e.operand2, FALSE).value
            IN  CASE e.operator = ADD -> ~AddOverflows(e.operand1, r)
                  [] e.operator = SUBTRACT -> ~SubOverflows(e.operand1, r)
                  [] e.operator = MULTIPLY -> ~MulOverflows(e.operand1, r)
                  [] e.operator = DIVIDE -> ~(e.operand1 = MinI32 /\ r = -1)

EvaluateReferenceInRange ==
    InRange(expr) => C2_EvaluateTotal /\ C3_EvaluateReference

-----------------------------------------------------------------------------
(* power_set.                                                               *)

SetLimit == 32

\* base.pow(exp) on i32: the product of exp factors, each step an i32 multiplication.
RECURSIVE Pow(_, _, _)
Pow(base, exp, checks) ==
    IF exp = 0 THEN Ok(1)
    ELSE LET acc == Pow(base, exp - 1, checks)
         IN  IF acc.fault # "none" THEN acc ELSE I32Mul(acc.value, base, checks)

\* The same call with the length check off by one.
power_set_guard_above(v, checks) ==
    IF Len(v) > SetLimit THEN Panic("Set is too large to generate power sets for.")
    ELSE Pow(2, Len(v), checks)

\* The call power_set(vec): the length check and the end of the range 0..2^len.
power_set(v, checks) ==
    IF Len(v) >= SetLimit THEN Panic("Set is too large to generate power sets for.")
    ELSE Pow(2, Len(v), checks)

\* (1 << index) & bit_vector != 0, for 0 <= index < 31 and bit_vector >= 0.
BitSet(index, bv) == (bv \div (2 ^ index)) % 2 # 0

\* The closure of power_set: the elements of v whose index has its bit set in bv.
RECURSIVE SubsetFrom(_, _, _)
SubsetFrom(v, bv, index) ==
    IF index >= Len(v) THEN <<>>
    ELSE (IF BitSet(index, bv) THEN <<v[index + 1]>> ELSE <<>>)
         \o SubsetFrom(v, bv, index + 1)

SubsetOf(v, bv) == SubsetFrom(v, bv, 0)

VecValues == {1, 2, 3}

LongVec(n) == [i \in 1..n |-> 1]

LongVecs == {LongVec(31), LongVec(32), LongVec(33)}

InitPowerSet ==
    /\ overflow_checks \in BOOLEAN
    /\ pc = "call"
    /\ fault = "none"
    /\ vec \in SeqsOf(VecValues, 0, MaxVec) \cup LongVecs
    /\ bit_vector = 0 /\ limit = 0 /\ yielded = <<>>
    /\ expr = Idle /\ value = 0
    /\ operands = Idle /\ target_value = 0 /\ queue = Idle /\ output = Idle
    /\ operations = Idle /\ map = {}

CallPowerSet ==
    /\ pc = "call"
    /\ LET r == power_set(vec, overflow_checks)
       IN  /\ fault' = r.fault
           /\ limit' = r.value
           /\ pc' = IF r.fault = "none" THEN "iterating" ELSE "panicked"
    /\ UNCHANGED <<overflow_checks, expr, value, vec, bit_vector, yielded, operands,
                   target_value, queue, output, operations, map>>

\* One next() of the iterator power_set returned.
PullPowerSet ==
    /\ pc = "iterating"
    /\ bit_vector < limit
    /\ yielded' = Append(yielded, SubsetOf(vec, bit_vector))
    /\ bit_vector' = bit_vector + 1
    /\ UNCHANGED <<overflow_checks, pc, fault, expr, value, vec, limit, operands,
                   target_value, queue, output, operations, map>>

EndPowerSet ==
    /\ pc = "iterating"
    /\ bit_vector >= limit
    /\ pc' = "done"
    /\ UNCHANGED <<overflow_checks, fault, expr, value, vec, bit_vector, limit, yielded,
                   operands, target_value, queue, output, operations, map>>

NextPowerSet == CallPowerSet \/ PullPowerSet \/ EndPowerSet

SpecPowerSet == InitPowerSet /\ [][NextPowerSet]_vars

\* c = 2^n.
RECURSIVE IsTwoToThe(_, _)
IsTwoToThe(n, c) ==
    IF n = 0 THEN c = 1
    ELSE c % 2 = 0 /\ IsTwoToThe(n - 1, c \div 2)

\* The elements of v at the positions P, in increasing position.
Restrict(v, P) ==
    LET f == CHOOSE g \in [1..Cardinality(P) -> P] :
                 \A i, j \in 1..Cardinality(P) : i < j => g[i] < g[j]
    IN  [k \in 1..Cardinality(P) |-> v[f[k]]]

\* The positions a bitmask m selects among n.
MaskPositions(n, m) == {i \in 1..n : (m \div (2 ^ (i - 1))) % 2 = 1}

PowerSetExact ==
    /\ IsTwoToThe(Len(vec), Len(yielded))
    /\ \A k \in 1..Len(yielded) :
           yielded[k] = Restrict(vec, MaskPositions(Len(vec), k - 1))
    /\ Cardinality({k \in 1..Len(yielded) : yielded[k] = <<>>}) = 1
    /\ Cardinality({k \in 1..Len(yielded) :
                        MaskPositions(Len(vec), k - 1) = 1..Len(vec)}) = 1

\* C4: for every input of length n < 32, n = 31 included, power_set yields exactly
\* 2^n subsets, the k-th being the elements selected by bitmask k - 1 in their
\* original order, with the empty subset and the full sequence once each, and the
\* i32 computation of 2^n never overflows.
C4_PowerSetAllSubsets ==
    Len(vec) < SetLimit =>
        /\ pc # "panicked"
        /\ pc = "done" => PowerSetExact

\* Below 31 elements the enumeration is exact.
PowerSetExactBelow31 ==
    Len(vec) < SetLimit - 1 =>
        /\ pc # "panicked"
        /\ pc = "done" => PowerSetExact

-----------------------------------------------------------------------------
(* permutations.                                                            *)

\* vec.remove(i) for a 0-based i: the vector without that element.
RemoveAt(v, i) == [k \in 1..(Len(v) - 1) |-> IF k <= i THEN v[k] ELSE v[k + 1]]

\* map(|mut permutation| { permutation.push(removed_element); permutation })
PushEach(perms, removed_element) ==
    [k \in 1..Len(perms) |-> Append(perms[k], removed_element)]

\* The same function with the last index left out of the range.
RECURSIVE permutations_skip_last(_), skip_last_from(_, _)
skip_last_from(v, i) ==
    IF i >= Len(v) - 1 THEN <<>>
    ELSE PushEach(permutations_skip_last(RemoveAt(v, i)), v[i + 1])
         \o skip_last_from(v, i + 1)

permutations_skip_last(v) ==
    IF Len(v) = 1 THEN <<v>> ELSE skip_last_from(v, 0)

\* The same function with the empty vector taken as a base case too.
RECURSIVE permutations_empty_base(_), empty_base_from(_, _)
empty_base_from(v, i) ==
    IF i >= Len(v) THEN <<>>
    ELSE PushEach(permutations_empty_base(RemoveAt(v, i)), v[i + 1])
         \o empty_base_from(v, i + 1)

permutations_empty_base(v) ==
    IF Len(v) <= 1 THEN <<v>> ELSE empty_base_from(v, 0)

RECURSIVE permutations(_), permutations_from(_, _)
\* (i..vec.len()).flat_map(..): the permutations that end with the element at i,
\* then those of the later indices.
permutations_from(v, i) ==
    IF i >= Len(v) THEN <<>>
    ELSE PushEach(permutations(RemoveAt(v, i)), v[i + 1])
         \o permutations_from(v, i + 1)

permutations(v) ==
    IF Len(v) = 1 THEN <<v>> ELSE permutations_from(v, 0)

\* The items of a vector made distinguishable: each paired with its position.
Positioned(s) == [i \in 1..Len(s) |-> <<i, s[i]>>]

InitPermutations ==
    /\ overflow_checks = FALSE
    /\ pc = "call"
    /\ fault = "none"
    /\ vec \in {Positioned(s) : s \in SeqsOf(VecValues, 0, MaxVec)}
    /\ bit_vector = 0 /\ limit = 0 /\ yielded = <<>>
    /\ expr = Idle /\ value = 0
    /\ operands = Idle /\ target_value = 0 /\ queue = Idle /\ output = Idle
    /\ operations = Idle /\ map = {}

\* permutations(vec), drained.
Permute ==
    /\ pc = "call"
    /\ yielded' = permutations(vec)
    /\ pc' = "done"
    /\ UNCHANGED <<overflow_checks, fault, expr, value, vec, bit_vector, limit, operands,
                   target_value, queue, output, operations, map>>

NextPermutations == Permute

SpecPermutations == InitPermutations /\ [][NextPermutations]_vars

RECURSIVE Factorial(_)
Factorial(n) == IF n = 0 THEN 1 ELSE n * Factorial(n - 1)

\* Every ordering of the positions 1..n.
Orderings(n) == {f \in [1..n -> 1..n] : \A i, j \in 1..n : i # j => f[i] # f[j]}

\* The positions a yielded permutation of a Positioned vector visits.
PositionsOf(perm) == [j \in 1..Len(perm) |-> perm[j][1]]

\* C7: for an input of length n >= 1, permutations yields exactly n! sequences, each
\* a bijective reordering of the input positions carrying the input's elements, and
\* every ordering of the n positions exactly once; equal values at different
\* positions give value-equal sequences, which are kept.
C7_PermutationsAll ==
    (pc = "done" /\ Len(vec) >= 1) =>
        LET n == Len(vec)
        IN  /\ Len(yielded) = Factorial(n)
            /\ \A k \in 1..Len(yielded) :
                   /\ Len(yielded[k]) = n
                   /\ PositionsOf(yielded[k]) \in Orderings(n)
                   /\ \A j \in 1..n : yielded[k][j] = vec[yielded[k][j][1]]
            /\ {PositionsOf(yielded[k]) : k \in 1..Len(yielded)} = Orderings(n)
            /\ \A k, m \in 1..Len(yielded) : k # m => yielded[k] # yielded[m]

\* Three items, two of them equal in value, permuted: value-equal duplicates are yielded.
C7_Witness ==
    /\ pc = "done"
    /\ Len(vec) = 3
    /\ vec[1][2] = vec[2][2]
    /\ Len(yielded) = 6
    /\ \E k, m \in 1..Len(yielded) :
           /\ k # m
           /\ [j \in 1..3 |-> yielded[k][j][2]] = [j \in 1..3 |-> yielded[m][j][2]]

-----------------------------------------------------------------------------
(* generate_operations.                                                     *)

\* Operator::values().into_iter().map(..): one Operation per operator, in the order of values().
WithOperators(first_operand, sub_operation) ==
    [k \in 1..Len(OperatorValues) |->
        Operation(first_operand, OperatorValues[k], sub_operation)]

\* sub_operations.flat_map(..): the sub-operations in order, each under every operator.
RECURSIVE FlatMapOperators(_, _)
FlatMapOperators(first_operand, sub_operations) ==
    IF sub_operations = <<>> THEN <<>>
    ELSE WithOperators(first_operand, Head(sub_operations))
         \o FlatMapOperators(first_operand, Tail(sub_operations))

RECURSIVE generate_operations(_)
generate_operations(ops) ==
    IF Len(ops) = 0
    THEN [fault |-> "removal index (is 0) should be < len (is 0)", items |-> <<>>]
    ELSE LET first_operand == Head(ops)
             rest == Tail(ops)
         IN  IF Len(rest) + 1 = 1
             THEN [fault |-> "none", items |-> <<SingleOperand(first_operand)>>]
             ELSE [fault |-> "none",
                   items |-> FlatMapOperators(first_operand,
                                              generate_operations(rest).items)]

InitGenerate ==
    /\ overflow_checks = FALSE
    /\ pc = "call"
    /\ fault = "none"
    /\ operands \in SeqsOf(VecValues, 0, MaxVec)
    /\ yielded = <<>>
    /\ vec = Idle /\ bit_vector = 0 /\ limit = 0
    /\ expr = Idle /\ value = 0
    /\ target_value = 0 /\ queue = Idle /\ output = Idle
    /\ operations = Idle /\ map = {}

\* generate_operations(operands), drained.
Generate ==
    /\ pc = "call"
    /\ LET r == generate_operations(operands)
       IN  /\ fault' = r.fault
           /\ yielded' = r.items
           /\ pc' = IF r.fault = "none" THEN "done" ELSE "panicked"
    /\ UNCHANGED <<overflow_checks, expr, value, vec, bit_vector, limit, operands,
                   target_value, queue, output, operations, map>>

NextGenerate == Generate

SpecGenerate == InitGenerate /\ [][NextGenerate]_vars

\* C8: for n >= 1 operands generate_operations yields exactly 4^(n-1) trees, one for
\* each assignment of an operator to each of the n-1 positions, none repeated or
\* missing, every one a right-nested chain of n operands and n-1 operators whose
\* operands read left to right are the input in its order.
C8_GenerateAllAssignments ==
    (pc # "call" /\ Len(operands) >= 1) =>
        LET n == Len(operands)
        IN  /\ pc = "done"
            /\ Len(yielded) = 4 ^ (n - 1)
            /\ \A k \in 1..Len(yielded) :
                   /\ OperandsOf(yielded[k]) = operands
                   /\ Len(OperatorsOf(yielded[k])) = n - 1
            /\ {OperatorsOf(yielded[k]) : k \in 1..Len(yielded)} = [1..(n - 1) -> Operator]
            /\ \A k, m \in 1..Len(yielded) : k # m => yielded[k] # yielded[m]

\* Three operands expanded into their 16 chains, 1 * 2 / 3 among them.
C8_Witness ==
    /\ pc = "done"
    /\ operands = <<1, 2, 3>>
    /\ Len(yielded) = 16
    /\ \E k \in 1..Len(yielded) :
           yielded[k] = Operation(1, MULTIPLY, Operation(2, DIVIDE, SingleOperand(3)))

-----------------------------------------------------------------------------
(* find_operations_for_value: the lazy pipeline                             *)
(* power_set -> permutations -> generate_operations -> filter on evaluate.  *)

SearchValues == {MinI32, -1, 2}

\* The operand lists searched: the short ones, the list of the usage example, and
\* lists around the length limit of power_set.
SearchInputs == SeqsOf(SearchValues, 0, MaxOperands) \cup {<<1, 2, 3>>} \cup LongVecs

Targets == {1, 6, 100}

\* filter(|x| x.evaluate() == target_value) over the items in order: the items kept,
\* up to the first evaluation that panics.
RECURSIVE FilterByValue(_, _, _)
FilterByValue(items, target, checks) ==
    IF items = <<>> THEN [fault |-> "none", kept |-> <<>>]
    ELSE LET v == evaluate(Head(items), checks)
         IN  IF v.fault # "none" THEN [fault |-> v.fault, kept |-> <<>>]
             ELSE LET rest == FilterByValue(Tail(items), target, checks)
                  IN  [fault |-> rest.fault,
                       kept |-> (IF v.value = target THEN <<Head(items)>> ELSE <<>>)
                                \o rest.kept]

Init ==
    /\ overflow_checks \in BOOLEAN
    /\ pc = "call"
    /\ fault = "none"
    /\ operands \in SearchInputs
    /\ target_value \in Targets
    /\ vec = <<>> /\ bit_vector = 0 /\ limit = 0 /\ yielded = <<>>
    /\ queue = <<>> /\ output = <<>>
    /\ expr = Idle /\ value = 0
    /\ operations = Idle /\ map = {}

\* The call find_operations_for_value(operands, target_value): power_set runs at
\* once, the adaptors around it are only built.
find_operations_for_value ==
    /\ pc = "call"
    /\ LET r == power_set(operands, overflow_checks)
       IN  /\ fault' = r.fault
           /\ limit' = r.value
           /\ vec' = IF r.fault = "none" THEN operands ELSE vec
           /\ pc' = IF r.fault = "none" THEN "iterating" ELSE "panicked"
    /\ UNCHANGED <<overflow_checks, expr, value, bit_vector, yielded, operands,
                   target_value, queue, output, operations, map>>

\* The outer flat_map takes the next subset and starts its permutations.
PullSubset ==
    /\ pc = "iterating"
    /\ queue = <<>>
    /\ bit_vector < limit
    /\ yielded' = Append(yielded, SubsetOf(vec, bit_vector))
    /\ queue' = permutations(SubsetOf(vec, bit_vector))
    /\ bit_vector' = bit_vector + 1
    /\ UNCHANGED <<overflow_checks, pc, fault, expr, value, vec, limit, operands,
                   target_value, output, operations, map>>

\* The inner flat_map takes the next permutation, expands it and filters the
\* expressions on their value.
PullPermutation ==
    /\ pc = "iterating"
    /\ queue # <<>>
    /\ LET g == generate_operations(Head(queue))
           f == FilterByValue(g.items, target_value, overflow_checks)
       IN  IF g.fault # "none"
           THEN /\ pc' = "panicked"
                /\ fault' = g.fault
                /\ UNCHANGED <<queue, output>>
           ELSE /\ output' = output \o f.kept
                /\ fault' = f.fault
                /\ pc' = IF f.fault = "none" THEN "iterating" ELSE "panicked"
                /\ queue' = IF f.fault = "none" THEN Tail(queue) ELSE queue
    /\ UNCHANGED <<overflow_checks, expr, value, vec, bit_vector, limit, yielded,
                   operands, target_value, operations, map>>

\* The range is exhausted: the iterator returns None.
EndSearch ==
    /\ pc = "iterating"
    /\ queue = <<>>
    /\ bit_vector >= limit
    /\ pc' = "done"
    /\ UNCHANGED <<overflow_checks, fault, expr, value, vec, bit_vector, limit, yielded,
                   operands, target_value, queue, output, operations, map>>

Next == find_operations_for_value \/ PullSubset \/ PullPermutation \/ EndSearch

Spec == Init /\ [][Next]_vars

\* Every ordering of every non-empty subset of the positions 1..n.
PositionOrders(n) ==
    {f \in SeqsOf(1..n, 1, n) : \A i, j \in 1..Len(f) : i # j => f[i] # f[j]}

\* The right-nested chain over the values vs with the operators g in the gaps.
RECURSIVE ChainOf(_, _)
ChainOf(vs, g) ==
    IF Len(vs) = 1 THEN SingleOperand(vs[1])
    ELSE Operation(vs[1], g[1], ChainOf(Tail(vs), Tail(g)))

\* The candidates of a search: an ordering of a subset and an operator per gap.
Candidates(n) ==
    UNION {{<<f, g>> : g \in [1..(Len(f) - 1) -> Operator]} : f \in PositionOrders(n)}

CandidateExpr(ops, c) == ChainOf([i \in 1..Len(c[1]) |-> ops[c[1][i]]], c[2])

Matching(ops, target, checks) ==
    {c \in Candidates(Len(ops)) :
        evaluate(CandidateExpr(ops, c), checks) = Ok(target)}

Occurrences(s, e) == Cardinality({k \in 1..Len(s) : s[k] = e})

\* C1: for every operand list shorter than 32 and every target, the search yields
\* exactly the candidates whose value is the target: every yielded expression
\* evaluates to the target, every matching candidate is yielded (as often as
\* orderings and assignments produce it), and the empty subset yields nothing.
\* The candidates are enumerated for the short lists; for a list of 31 the
\* single-operand candidates stand for them.
C1_SearchExact ==
    Len(operands) < SetLimit =>
        /\ pc # "panicked"
        /\ pc = "done" =>
            /\ \A k \in 1..Len(output) :
                   evaluate(output[k], overflow_checks) = Ok(target_value)
            /\ \A i \in 1..Len(operands) :
                   operands[i] = target_value =>
                       \E k \in 1..Len(output) : output[k] = SingleOperand(operands[i])
            /\ Len(operands) <= MaxOperands =>
                   LET M == Matching(operands, target_value, overflow_checks)
                       E == {CandidateExpr(operands, c) : c \in M}
                   IN  /\ Range(output) = E
                       /\ \A e \in E :
                              Occurrences(output, e) =
                                  Cardinality({c \in M : CandidateExpr(operands, c) = e})

\* The operands of the search never leave the i32 range in any candidate.
SearchInRange ==
    \A c \in Candidates(Len(operands)) : InRange(CandidateExpr(operands, c))

\* Where no candidate leaves the i32 range, a search below 31 operands is exact.
SearchExactInRange ==
    (Len(operands) <= MaxOperands /\ SearchInRange) => C1_SearchExact

\* search([1,2,3], 6) contains 1 + 2 + 3.
SearchExample ==
    (pc = "done" /\ operands = <<1, 2, 3>> /\ target_value = 6) =>
        \E k \in 1..Len(output) :
            output[k] = Operation(1, ADD, Operation(2, ADD, SingleOperand(3)))

\* C5: with 32 or more operands the call itself fails with the set-too-large
\* panic: the pipeline is never pulled and no subset, permutation or expression
\* is produced.
C5_TooLargeFailsAtCall ==
    Len(operands) >= SetLimit =>
        /\ pc \in {"call", "panicked"}
        /\ pc = "panicked" => fault = "Set is too large to generate power sets for."
        /\ yielded = <<>> /\ queue = <<>> /\ output = <<>>
        /\ bit_vector = 0 /\ limit = 0

\* The call with exactly 32 operands has panicked.
C5_Witness ==
    /\ Len(operands) = SetLimit
    /\ pc = "panicked"
    /\ fault = "Set is too large to generate power sets for."

\* C6 as stated: with no operand the search is reported as a failure and does not
\* complete normally.
C6_EmptyInputFails ==
    Len(operands) = 0 => pc # "done"

\* C6 as the code has it: with no operand the search never fails; it completes
\* normally with an empty result, after power_set yielded the empty subset alone
\* and permutations yielded nothing for it.
C6_EmptyInputCompletesEmpty ==
    Len(operands) = 0 =>
        /\ pc # "panicked" /\ fault = "none"
        /\ queue = <<>> /\ output = <<>>
        /\ pc = "iterating" => limit = 1
        /\ pc = "done" => yielded = << <<>> >>

\* The search over no operand has completed.
C6_Witness ==
    /\ Len(operands) = 0
    /\ pc = "done"
    /\ yielded = << <<>> >>
    /\ output = <<>>

-----------------------------------------------------------------------------
(* process_associative_operation_filter and SimilarOperationKey.            *)

\* SimilarOperationKey::from: the operators and the operand values of the tree, as sets.
RECURSIVE SimilarOperationKey(_)
SimilarOperationKey(operation) ==
    IF operation.tag = "SingleOperand"
    THEN [operators |-> {}, operands |-> {operation.value}]
    ELSE LET key == SimilarOperationKey(operation.operand2)
         IN  [operators |-> key.operators \cup {operation.operator},
              operands |-> key.operands \cup {operation.operand1}]

\* The discriminant derive(Hash) feeds for an Operator: its place in the enum.
Discriminant(operator) ==
    CASE operator = ADD -> 0
      [] operator = SUBTRACT -> 1
      [] operator = MULTIPLY -> 2
      [] operator = DIVIDE -> 3

\* The orders in which a HashSet holding S may iterate: each set is built with a
\* RandomState of its own, so any order of its elements.
IterationOrders(S) ==
    {f \in [1..Cardinality(S) -> S] : \A i, j \in 1..Cardinality(S) : i # j => f[i] # f[j]}

\* Hash for SimilarOperationKey: the operators, then the operands, fed to the hasher
\* in the order the sets iterate.  The hash is taken as the stream fed.
HashOf(operatorOrder, operandOrder) ==
    [i \in 1..Len(operatorOrder) |-> <<"isize", Discriminant(operatorOrder[i])>>]
    \o [i \in 1..Len(operandOrder) |-> <<"i32", operandOrder[i]>>]

\* HashMap::insert: the entry of an equal key found under this hash gets the new
\* value; otherwise a new entry is made.
Insert(m, hash, key, operation) ==
    LET found == {e \in m : e.hash = hash /\ e.key = key}
    IN  IF found = {}
        THEN m \cup {[hash |-> hash, key |-> key, value |-> operation]}
        ELSE (m \ found) \cup {[e EXCEPT !.value = operation] : e \in found}

FilterOperands == {1, 2}

FilterPool == Chains(FilterOperands, 2)

InitFilter ==
    /\ overflow_checks = FALSE
    /\ pc = "collect"
    /\ fault = "none"
    /\ operations \in SeqsOf(FilterPool, 0, MaxOperations)
    /\ queue = operations
    /\ map = {}
    /\ yielded = <<>>
    /\ vec = Idle /\ bit_vector = 0 /\ limit = 0
    /\ expr = Idle /\ value = 0
    /\ operands = Idle /\ target_value = 0 /\ output = Idle

\* collect() takes the next (key, operation) pair into the HashMap.
Collect ==
    /\ pc = "collect"
    /\ queue # <<>>
    /\ LET operation == Head(queue)
           key == SimilarOperationKey(operation)
       IN  \E operatorOrder \in IterationOrders(key.operators) :
           \E operandOrder \in IterationOrders(key.operands) :
               map' = Insert(map, HashOf(operatorOrder, operandOrder), key, operation)
    /\ queue' = Tail(queue)
    /\ UNCHANGED <<overflow_checks, pc, fault, expr, value, vec, bit_vector, limit,
                   yielded, operands, target_value, output, operations>>

\* into_iter().map(|(_key, operation)| operation), drained: the values of the
\* entries, in whatever order the HashMap iterates.
IntoIter ==
    /\ pc = "collect"
    /\ queue = <<>>
    /\ \E order \in IterationOrders(map) :
           yielded' = [k \in 1..Len(order) |-> order[k].value]
    /\ pc' = "done"
    /\ UNCHANGED <<overflow_checks, fault, expr, value, vec, bit_vector, limit,
                   operands, target_value, queue, output, operations, map>>

NextFilter == Collect \/ IntoIter

SpecFilter == InitFilter /\ [][NextFilter]_vars

\* C9: the filter returns exactly one expression per distinct SimilarOperationKey
\* of its input: the keys of the output are pairwise distinct, every key of the
\* input is represented, and every output expression is an input expression.
C9_OnePerKey ==
    pc = "done" =>
        /\ \A k, m \in 1..Len(yielded) :
               k # m => SimilarOperationKey(yielded[k]) # SimilarOperationKey(yielded[m])
        /\ \A i \in 1..Len(operations) :
               \E k \in 1..Len(yielded) :
                   SimilarOperationKey(yielded[k]) = SimilarOperationKey(operations[i])
        /\ \A k \in 1..Len(yielded) : yielded[k] \in Range(operations)

\* C10: keys that are equal (equal operator sets and equal operand sets) have the
\* same hash, whatever the iteration order of their sets, so the map holds equal
\* keys as one entry.
C10_HashConsistentWithEq ==
    \A e1, e2 \in map : e1.key = e2.key => e1.hash = e2.hash

\* What the filter keeps whatever the hashes: every key of the input is
\* represented by an input expression, at least once.
FilterCoversKeys ==
    pc = "done" =>
        /\ \A i \in 1..Len(operations) :
               \E k \in 1..Len(yielded) :
                   SimilarOperationKey(yielded[k]) = SimilarOperationKey(operations[i])
        /\ \A k \in 1..Len(yielded) : yielded[k] \in Range(operations)

====
